---- MODULE Spec2Model ----
(***************************************************************************)
(* State-machine model of the my-rts core: the player's ResourceManager,   *)
(* harvestable Trees, Units/Workers and their harvest state machine, and   *)
(* the Base's training queue.                                              *)
(*                                                                         *)
(* Numbers.  The source computes with IEEE doubles.  The model uses        *)
(* fixed-point integers: one second is Scale ticks and one world unit is   *)
(* Scale steps, the world is the x axis (y = z = 0), where distanceTo is   *)
(* |a - b| and normalize() is the sign.  Resource quantities are integers, *)
(* as they are in the source (Math.floor'ed harvests, integer costs).      *)
(***************************************************************************)
EXTENDS Integers, Sequences, FiniteSets, TLC

(***************************************************************************)
(* Bounds of the model (not program constants).                            *)
(***************************************************************************)
\* Fixed-point resolution: ticks per second and steps per world unit.
Scale == 10
\* ResourceManager.addResource is only exercised while the sum stays <= MaxQty.
MaxQty == 100
\* An amount no inventory of the model can cover.
BigAmount == 1000000

NULL == "null"
\* A null THREE.Vector3 | null; a position x is <<x>>.
NoPosition == <<>>

Abs(x) == IF x < 0 THEN -x ELSE x
Min(a, b) == IF a < b THEN a ELSE b
Sign(x) == IF x < 0 THEN -1 ELSE IF x > 0 THEN 1 ELSE 0

VARIABLES
    resources,            \* ResourceManager._resources
    rmCall,               \* the last ResourceManager call: arguments, result, inventory before it
    tree,                 \* per tree: _woodAmount, _isBeingHarvested
    treeCall,             \* the last Tree.harvest call: tree, caller, amount, wood before, result
    worker,               \* per worker: the fields of Unit and Worker
    trainingQueue,        \* Base._trainingQueue
    workerReadyToSpawn,   \* Base._workerReadyToSpawn
    spawnedWorkers,       \* Base._spawnedWorkers: the angles (0..7) of the recent spawn points
    baseCall,             \* the last Base call: queue and flag before it, what it returned
    workers,              \* Game._workers: the ids of the workers, in spawn order
    trees,                \* Game._trees: the ids of the trees still in the scene
    frame,                \* the last Game._update: its deltaTime, the worker it spawned,
                          \* the workers it updated and those it collected from, in order
    harvestTime,          \* the time the worker of the harvest run has spent in HARVESTING
    finderCall,           \* the last direct Game._findNearbyTree call: the trees list, the
                          \* trees' wood, the search position, the tree returned
    commands              \* the number of right-clicks the player of the endless game has made

rmVars == <<resources, rmCall>>
treeVars == <<tree, treeCall>>
workerVars == <<worker>>
baseVars == <<trainingQueue, workerReadyToSpawn, spawnedWorkers, baseCall>>
gameVars == <<workers, trees, frame, finderCall, commands>>
vars == <<rmVars, treeVars, workerVars, baseVars, gameVars, harvestTime>>

(***************************************************************************)
(* ResourceManager                                                         *)
(***************************************************************************)
ResourceType == {"wood", "food", "stone", "gold", "iron", "tools"}

\* The inventory the constructor builds.
InitialResources ==
    [wood |-> 100, food |-> 100, stone |-> 50, gold |-> 0, iron |-> 0, tools |-> 0]

\* Amounts the harness passes to addResource / removeResource.
Amounts == {0, 50, BigAmount}

\* ResourceCost objects the harness passes to hasEnough / deductCost: partial
\* maps over at most two kinds (absent keys are absent from the DOMAIN).
CostKindSets == {{}, {"food"}, {"wood", "stone"}, {"gold", "tools"}}
Costs == UNION {[ks -> Amounts] : ks \in CostKindSets}
NoCost == [k \in {} |-> 0]


\* addResource(type, amount)
addResource(res, type, amount) == [res EXCEPT ![type] = @ + amount]

\* A removeResource that subtracts before it looks at the quantity.
removeResourceNoCheck(res, type, amount) ==
    [ret |-> ~(res[type] < amount), resources |-> [res EXCEPT ![type] = @ - amount]]
\* removeResource(type, amount): [ret, resources]
removeResource(res, type, amount) ==
    IF res[type] < amount
    THEN [ret |-> FALSE, resources |-> res]
    ELSE [ret |-> TRUE, resources |-> [res EXCEPT ![type] = @ - amount]]

\* A hasEnough that never finds a shortage.
hasEnoughAlways(res, cost) == \A type \in DOMAIN cost : res[type] = res[type]
\* hasEnough(cost): a falsy amount (0, or an absent key) is skipped
hasEnough(res, cost) ==
    \A type \in DOMAIN cost : ~(cost[type] # 0 /\ res[type] < cost[type])

\* The subtraction loop of deductCost.
subtractCost(res, cost) ==
    [type \in DOMAIN res |->
        IF type \in DOMAIN cost /\ cost[type] # 0 THEN res[type] - cost[type] ELSE res[type]]

\* A deductCost that checks and subtracts kind by kind (in Object.entries order,
\* here: the kinds that can be paid are paid) instead of checking everything first.
deductCostPartial(res, cost) ==
    [ret |-> hasEnough(res, cost),
     resources |-> [type \in DOMAIN res |->
        IF type \in DOMAIN cost /\ cost[type] # 0 /\ ~(res[type] < cost[type])
        THEN res[type] - cost[type] ELSE res[type]]]
\* deductCost(cost): [ret, resources]
deductCost(res, cost) ==
    IF ~hasEnough(res, cost)
    THEN [ret |-> FALSE, resources |-> res]
    ELSE [ret |-> TRUE, resources |-> subtractCost(res, cost)]

RMInit ==
    /\ resources = InitialResources
    /\ rmCall = [op |-> "new", type |-> NULL, amount |-> 0, cost |-> NoCost,
                 ret |-> TRUE, before |-> InitialResources]

AddResource(type, amount) ==
    /\ resources[type] + amount <= MaxQty
    /\ resources' = addResource(resources, type, amount)
    /\ rmCall' = [op |-> "addResource", type |-> type, amount |-> amount, cost |-> NoCost,
                  ret |-> TRUE, before |-> resources]
    /\ UNCHANGED <<harvestTime, gameVars, treeVars, workerVars, baseVars>>

RemoveResource(type, amount) ==
    LET r == removeResource(resources, type, amount) IN
    /\ resources' = r.resources
    /\ rmCall' = [op |-> "removeResource", type |-> type, amount |-> amount, cost |-> NoCost,
                  ret |-> r.ret, before |-> resources]
    /\ UNCHANGED <<harvestTime, gameVars, treeVars, workerVars, baseVars>>

DeductCost(cost) ==
    LET r == deductCost(resources, cost) IN
    /\ resources' = r.resources
    /\ rmCall' = [op |-> "deductCost", type |-> NULL, amount |-> 0, cost |-> cost,
                  ret |-> r.ret, before |-> resources]
    /\ UNCHANGED <<harvestTime, gameVars, treeVars, workerVars, baseVars>>

(***************************************************************************)
(* Tree                                                                    *)
(***************************************************************************)
TreeIds == {"t1", "t2"}

\* Tree._position: two trees of the group around (-20, 0, 0), on the x axis.
TreePos(t) == IF t = "t1" THEN -17 * Scale ELSE -19 * Scale

\* Tree._maxWoodAmount = Math.floor(50 + Math.random() * 50), in 50..99.
MaxWoodAmount(t) == IF t = "t1" THEN 50 ELSE 53

\* Amounts the harness passes to Tree.harvest directly.
HarvestRequests == {0, 5, 7, BigAmount}


\* A harvest that subtracts the requested amount without clamping it.
harvestUnclamped(tr, t, amount) ==
    [harvested |-> amount, tr |-> [tr EXCEPT ![t].woodAmount = @ - amount]]
\* Tree.harvest(amount): [harvested, tr]
harvest(tr, t, amount) ==
    LET harvestedAmount == Min(amount, tr[t].woodAmount) IN
    [harvested |-> harvestedAmount, tr |-> [tr EXCEPT ![t].woodAmount = @ - harvestedAmount]]

\* Tree.isDepleted()
isDepleted(tr, t) == tr[t].woodAmount <= 0

\* Tree.setBeingHarvested(isHarvested)
setBeingHarvested(tr, t, isHarvested) == [tr EXCEPT ![t].isBeingHarvested = isHarvested]

NoTreeCall == [tree |-> NULL, by |-> NULL, amount |-> 0, before |-> 0, ret |-> 0]

\* Trees as the constructor leaves them.
NewTrees == [t \in TreeIds |-> [woodAmount |-> MaxWoodAmount(t), isBeingHarvested |-> FALSE]]

TreeInit ==
    /\ tree = NewTrees
    /\ treeCall = NoTreeCall

\* A direct call of Tree.harvest by caller `by`.
TreeHarvest(t, by, amount) ==
    LET h == harvest(tree, t, amount) IN
    /\ tree' = h.tr
    /\ treeCall' = [tree |-> t, by |-> by, amount |-> amount,
                    before |-> tree[t].woodAmount, ret |-> h.harvested]
    /\ UNCHANGED <<harvestTime, gameVars, rmVars, workerVars, baseVars>>

(***************************************************************************)
(* Unit and Worker                                                         *)
(***************************************************************************)
MAX_CARRY_CAPACITY == 10
HARVEST_RATE == 5
HARVEST_RANGE == 2
BASE_DELIVERY_RANGE == 4
\* WORKER_CONFIG.moveSpeed, units per second
MoveSpeed == 5

\* Game._base = new Base(new THREE.Vector3(0, 0, 0))
BasePos == 0
\* Base._rallyPoint: the base's position with x += 8
RallyPoint == BasePos + 8 * Scale
\* Base._calculateSpawnPosition, first angle (0): max(width, depth) / 2 + 1 = 4 from the base
SpawnPos == BasePos + 4 * Scale

WorkerIds == {"w1"}
\* Frame deltas, in ticks: a half-second frame, two of which make the harvest
\* timer reach one second, and a 3 s frame (a tab that was in the background).
DeltaTimes == {Scale \div 2, 3 * Scale}
\* Ground points of a right-click move command.
MovePoints == {-10 * Scale}


\* new Worker(position) followed by Base.spawnWorker's moveTo(rallyPoint)
NewWorker(pos) ==
    [state |-> "IDLE", targetResource |-> NULL, assignedResource |-> NULL,
     homeBase |-> NULL, carriedResources |-> [wood |-> 0, food |-> 0, stone |-> 0],
     harvestTimer |-> 0, position |-> pos, isMoving |-> FALSE,
     targetPosition |-> NoPosition]

\* Unit.moveTo(target)
moveTo(wk, target) == [wk EXCEPT !.targetPosition = <<target>>, !.isMoving = TRUE]

\* A Unit.update that stops at the target but keeps _targetPosition.
UnitUpdateKeepsTarget(wk, deltaTime) ==
    IF wk.isMoving /\ wk.targetPosition # NoPosition
    THEN LET target == wk.targetPosition[1]
             direction == Sign(target - wk.position)
             distance == Abs(wk.position - target)
             moveDistance == MoveSpeed * deltaTime
         IN IF distance <= moveDistance
            THEN [wk EXCEPT !.position = target, !.isMoving = FALSE]
            ELSE [wk EXCEPT !.position = @ + direction * moveDistance]
    ELSE wk
\* A Unit.update that always moves the full step, past the target if it is nearer.
UnitUpdateOvershoots(wk, deltaTime) ==
    IF wk.isMoving /\ wk.targetPosition # NoPosition
    THEN LET target == wk.targetPosition[1]
             direction == Sign(target - wk.position)
             distance == Abs(wk.position - target)
             moveDistance == MoveSpeed * deltaTime
         IN IF distance = moveDistance
            THEN [wk EXCEPT !.position = target,
                            !.isMoving = FALSE, !.targetPosition = NoPosition]
            ELSE [wk EXCEPT !.position = @ + direction * moveDistance]
    ELSE wk
\* Unit.update(deltaTime)
UnitUpdate(wk, deltaTime) ==
    IF wk.isMoving /\ wk.targetPosition # NoPosition
    THEN LET target == wk.targetPosition[1]
             direction == Sign(target - wk.position)
             distance == Abs(wk.position - target)
             moveDistance == MoveSpeed * deltaTime
         IN IF distance <= moveDistance
            THEN [wk EXCEPT !.position = target,
                            !.isMoving = FALSE, !.targetPosition = NoPosition]
            ELSE [wk EXCEPT !.position = @ + direction * moveDistance]
    ELSE wk

\* resourcePos + normalize(position - resourcePos) * (HARVEST_RANGE * 0.8),
\* with direction (1, 0, 0) when the worker stands on the resource
NearResource(pos, resourcePos) ==
    LET d == Sign(pos - resourcePos)
        direction == IF d = 0 THEN 1 ELSE d
    IN resourcePos + direction * ((HARVEST_RANGE * Scale * 8) \div 10)

\* A shared tail that targets the resource but keeps the old assignment.
GoToResourceKeepsAssigned(wk, t) ==
    moveTo([wk EXCEPT !.targetResource = t, !.state = "MOVING_TO_RESOURCE"],
           NearResource(wk.position, TreePos(t)))
\* The shared tail of harvestResource and of the re-seek branches:
\* target and assign the resource, go MOVING_TO_RESOURCE, move next to it.
GoToResource(wk, t) ==
    moveTo([wk EXCEPT !.targetResource = t, !.assignedResource = t,
                      !.state = "MOVING_TO_RESOURCE"],
           NearResource(wk.position, TreePos(t)))

\* A harvestResource that targets the resource but keeps the old assignment.
harvestResourceKeepsAssigned(wk, t, base) ==
    moveTo([wk EXCEPT !.targetResource = t, !.homeBase = base,
                      !.state = "MOVING_TO_RESOURCE"],
           NearResource(wk.position, TreePos(t)))

\* Worker.harvestResource(resource, homeBase)
harvestResource(wk, t, base) == GoToResource([wk EXCEPT !.homeBase = base], t)

\* Worker._moveToBaseDeliveryPoint()
moveToBaseDeliveryPoint(wk) ==
    IF wk.homeBase = NULL THEN wk
    ELSE moveTo(wk, BasePos + Sign(wk.position - BasePos) * (BASE_DELIVERY_RANGE * Scale))

\* A stopTask that forgets the tree it was harvesting.
stopTaskKeepsFlag(wk, tr) ==
    [wk |-> [wk EXCEPT !.targetResource = NULL, !.assignedResource = NULL,
                       !.state = "IDLE", !.targetPosition = NoPosition,
                       !.isMoving = FALSE],
     tr |-> tr]

\* Worker.stopTask(): [wk, tr]
stopTask(wk, tr) ==
    [wk |-> [wk EXCEPT !.targetResource = NULL, !.assignedResource = NULL,
                       !.state = "IDLE", !.targetPosition = NoPosition,
                       !.isMoving = FALSE],
     tr |-> IF wk.targetResource # NULL
            THEN setBeingHarvested(tr, wk.targetResource, FALSE) ELSE tr]

\* A collectCarriedResources that returns the amounts but keeps the inventory.
collectCarriedResourcesKeeps(wk) == [resources |-> wk.carriedResources, wk |-> wk]

\* Worker.collectCarriedResources(): [resources, wk]
collectCarriedResources(wk) ==
    [resources |-> wk.carriedResources,
     wk |-> [wk EXCEPT !.carriedResources = [wood |-> 0, food |-> 0, stone |-> 0]]]

MAX_SEARCH_DISTANCE == 15

\* A finder loop that compares with <=, so that the last of several equally near
\* trees wins.
RECURSIVE ClosestTreeLastWins(_, _, _, _, _, _)
ClosestTreeLastWins(list, i, tr, searchPos, closestTree, closestDistance) ==
    IF i > Len(list) THEN closestTree
    ELSE LET t == list[i]
             distance == Abs(searchPos - TreePos(t))
         IN IF ~isDepleted(tr, t)
               /\ (closestTree = NULL \/ distance <= closestDistance)
               /\ distance <= MAX_SEARCH_DISTANCE * Scale
            THEN ClosestTreeLastWins(list, i + 1, tr, searchPos, t, distance)
            ELSE ClosestTreeLastWins(list, i + 1, tr, searchPos, closestTree, closestDistance)

\* The loop of Game._findNearbyTree over the trees list from index i on.
RECURSIVE ClosestTree(_, _, _, _, _, _)
ClosestTree(list, i, tr, searchPos, closestTree, closestDistance) ==
    IF i > Len(list) THEN closestTree
    ELSE LET t == list[i]
             distance == Abs(searchPos - TreePos(t))
         IN IF ~isDepleted(tr, t)
               /\ (closestTree = NULL \/ distance < closestDistance)
               /\ distance <= MAX_SEARCH_DISTANCE * Scale
            THEN ClosestTree(list, i + 1, tr, searchPos, t, distance)
            ELSE ClosestTree(list, i + 1, tr, searchPos, closestTree, closestDistance)

\* Game._findNearbyTree(worker), the finder Game._update installs in every worker
findNearbyTree(list, tr, wk) ==
    LET searchPos == IF wk.assignedResource # NULL
                     THEN TreePos(wk.assignedResource) ELSE wk.position
    IN ClosestTree(list, 1, tr, searchPos, NULL, 0)

\* A MOVING_TO_RESOURCE case that starts harvesting as soon as the tree is in range,
\* whether or not the unit has stopped.
UpdateMovingToResourceWhileMoving(wk, tr) ==
    IF /\ wk.targetResource # NULL
       /\ Abs(wk.position - TreePos(wk.targetResource)) <= HARVEST_RANGE * Scale
    THEN [wk |-> [wk EXCEPT !.state = "HARVESTING"],
          tr |-> setBeingHarvested(tr, wk.targetResource, TRUE)]
    ELSE [wk |-> wk, tr |-> tr]
NoFinderCall == [list |-> <<>>, wood |-> <<>>, searchPos |-> 0, ret |-> NULL, called |-> FALSE]

\* Worker.update, case MOVING_TO_RESOURCE: [wk, tr]
UpdateMovingToResource(wk, tr) ==
    IF /\ ~wk.isMoving
       /\ wk.targetResource # NULL
       /\ Abs(wk.position - TreePos(wk.targetResource)) <= HARVEST_RANGE * Scale
    THEN [wk |-> [wk EXCEPT !.state = "HARVESTING"],
          tr |-> setBeingHarvested(tr, wk.targetResource, TRUE)]
    ELSE [wk |-> wk, tr |-> tr]

\* A depleted-target branch that drops the task when no tree is found, even when
\* the worker carries wood.
UpdateHarvestingDepletedNoReturn(wk, tr, list) ==
    LET tr1 == setBeingHarvested(tr, wk.targetResource, FALSE)
        nearbyTree == findNearbyTree(list, tr1, wk)
    IN IF nearbyTree # NULL
       THEN [wk |-> GoToResource(wk, nearbyTree), tr |-> tr1]
       ELSE [wk |-> [wk EXCEPT !.state = "IDLE", !.targetResource = NULL,
                               !.assignedResource = NULL],
             tr |-> tr1]

\* A depleted-target branch whose last case forgets to set the state to IDLE.
UpdateHarvestingDepletedNoIdle(wk, tr, list) ==
    LET tr1 == setBeingHarvested(tr, wk.targetResource, FALSE)
        nearbyTree == findNearbyTree(list, tr1, wk)
    IN IF nearbyTree # NULL
       THEN [wk |-> GoToResource(wk, nearbyTree), tr |-> tr1]
       ELSE IF wk.carriedResources.wood > 0 /\ wk.homeBase # NULL
       THEN [wk |-> moveToBaseDeliveryPoint([wk EXCEPT !.state = "RETURNING_TO_BASE"]),
             tr |-> tr1]
       ELSE [wk |-> [wk EXCEPT !.assignedResource = NULL], tr |-> tr1]
\* Worker.update, case HARVESTING with a depleted target: [wk, tr]
UpdateHarvestingDepleted(wk, tr, list) ==
    LET tr1 == setBeingHarvested(tr, wk.targetResource, FALSE)
        nearbyTree == findNearbyTree(list, tr1, wk)
    IN IF nearbyTree # NULL
       THEN [wk |-> GoToResource(wk, nearbyTree), tr |-> tr1]
       ELSE IF wk.carriedResources.wood > 0 /\ wk.homeBase # NULL
       THEN [wk |-> moveToBaseDeliveryPoint([wk EXCEPT !.state = "RETURNING_TO_BASE"]),
             tr |-> tr1]
       ELSE [wk |-> [wk EXCEPT !.state = "IDLE", !.targetResource = NULL,
                               !.assignedResource = NULL],
             tr |-> tr1]

\* Worker.update, case HARVESTING, the inventory-full check after a harvest: [wk, tr]
AfterHarvest(wk, tr) ==
    IF wk.carriedResources.wood >= MAX_CARRY_CAPACITY
    THEN [wk |-> IF wk.homeBase # NULL
                 THEN moveToBaseDeliveryPoint([wk EXCEPT !.state = "RETURNING_TO_BASE"])
                 ELSE [wk EXCEPT !.state = "IDLE"],
          tr |-> setBeingHarvested(tr, wk.targetResource, FALSE)]
    ELSE [wk |-> wk, tr |-> tr]

\* A harvest step that keeps the sub-second part of the timer after a harvest.
UpdateHarvestingLiveKeepsRemainder(wk, tr, deltaTime, by) ==
    LET timer == wk.harvestTimer + deltaTime IN
    IF timer >= Scale
    THEN LET harvestAmount == (timer * HARVEST_RATE) \div Scale
             h == harvest(tr, wk.targetResource, harvestAmount)
             wk1 == [wk EXCEPT !.harvestTimer = timer % Scale,
                               !.carriedResources.wood = @ + h.harvested]
             r == AfterHarvest(wk1, h.tr)
         IN [wk |-> r.wk, tr |-> r.tr,
             call |-> [tree |-> wk.targetResource, by |-> by, amount |-> harvestAmount,
                       before |-> tr[wk.targetResource].woodAmount, ret |-> h.harvested]]
    ELSE [wk |-> [wk EXCEPT !.harvestTimer = timer], tr |-> tr, call |-> NoTreeCall]

\* A harvest step that puts the amount it asked for into the worker's hands,
\* whatever the tree gave.
UpdateHarvestingLiveAddsRequested(wk, tr, deltaTime, by) ==
    LET timer == wk.harvestTimer + deltaTime IN
    IF timer >= Scale
    THEN LET harvestAmount == (timer * HARVEST_RATE) \div Scale
             h == harvest(tr, wk.targetResource, harvestAmount)
             wk1 == [wk EXCEPT !.harvestTimer = 0,
                               !.carriedResources.wood = @ + harvestAmount]
             r == AfterHarvest(wk1, h.tr)
         IN [wk |-> r.wk, tr |-> r.tr,
             call |-> [tree |-> wk.targetResource, by |-> by, amount |-> harvestAmount,
                       before |-> tr[wk.targetResource].woodAmount, ret |-> h.harvested]]
    ELSE [wk |-> [wk EXCEPT !.harvestTimer = timer], tr |-> tr, call |-> NoTreeCall]
\* Worker.update, case HARVESTING with a live target: [wk, tr, call]
UpdateHarvestingLive(wk, tr, deltaTime, by) ==
    LET timer == wk.harvestTimer + deltaTime IN
    IF timer >= Scale
    THEN LET harvestAmount == (timer * HARVEST_RATE) \div Scale
             h == harvest(tr, wk.targetResource, harvestAmount)
             wk1 == [wk EXCEPT !.harvestTimer = 0,
                               !.carriedResources.wood = @ + h.harvested]
             r == AfterHarvest(wk1, h.tr)
         IN [wk |-> r.wk, tr |-> r.tr,
             call |-> [tree |-> wk.targetResource, by |-> by, amount |-> harvestAmount,
                       before |-> tr[wk.targetResource].woodAmount, ret |-> h.harvested]]
    ELSE [wk |-> [wk EXCEPT !.harvestTimer = timer], tr |-> tr, call |-> NoTreeCall]

\* Worker.update, case RETURNING_TO_BASE
UpdateReturningToBase(wk) ==
    IF /\ ~wk.isMoving
       /\ wk.homeBase # NULL
       /\ Abs(wk.position - BasePos) <= BASE_DELIVERY_RANGE * Scale
    THEN [wk EXCEPT !.state = "DELIVERING"]
    ELSE wk

\* A DELIVERING case that goes IDLE without clearing the assigned resource.
UpdateDeliveringKeepsAssigned(wk, tr, list) ==
    IF wk.assignedResource # NULL /\ ~isDepleted(tr, wk.assignedResource)
    THEN GoToResource(wk, wk.assignedResource)
    ELSE LET nearbyTree == findNearbyTree(list, tr, wk) IN
         IF nearbyTree # NULL
         THEN GoToResource(wk, nearbyTree)
         ELSE [wk EXCEPT !.state = "IDLE", !.targetResource = NULL]
\* Worker.update, case DELIVERING
UpdateDelivering(wk, tr, list) ==
    IF wk.assignedResource # NULL /\ ~isDepleted(tr, wk.assignedResource)
    THEN GoToResource(wk, wk.assignedResource)
    ELSE LET nearbyTree == findNearbyTree(list, tr, wk) IN
         IF nearbyTree # NULL
         THEN GoToResource(wk, nearbyTree)
         ELSE [wk EXCEPT !.state = "IDLE", !.targetResource = NULL,
                         !.assignedResource = NULL]

\* Worker.update(deltaTime) of worker `by`: [wk, tr, call]; call is the Tree.harvest
\* call it made (NoTreeCall when it made none)
WorkerUpdate(wk0, tr, list, deltaTime, by) ==
    LET wk == UnitUpdate(wk0, deltaTime) IN
    CASE wk.state = "MOVING_TO_RESOURCE" ->
            LET r == UpdateMovingToResource(wk, tr)
            IN [wk |-> r.wk, tr |-> r.tr, call |-> NoTreeCall]
      [] wk.state = "HARVESTING" ->
            IF wk.targetResource = NULL
            THEN [wk |-> wk, tr |-> tr, call |-> NoTreeCall]
            ELSE IF isDepleted(tr, wk.targetResource)
            THEN LET r == UpdateHarvestingDepleted(wk, tr, list)
                 IN [wk |-> r.wk, tr |-> r.tr, call |-> NoTreeCall]
            ELSE UpdateHarvestingLive(wk, tr, deltaTime, by)
      [] wk.state = "RETURNING_TO_BASE" ->
            [wk |-> UpdateReturningToBase(wk), tr |-> tr, call |-> NoTreeCall]
      [] wk.state = "DELIVERING" ->
            [wk |-> UpdateDelivering(wk, tr, list), tr |-> tr, call |-> NoTreeCall]
      [] OTHER -> [wk |-> wk, tr |-> tr, call |-> NoTreeCall]

\* Game._trees in creation order (the harness removes no tree from it).
AllTrees == <<"t1", "t2">>

(***************************************************************************)
(* The unit harness: the public methods of Worker and Tree, called in any  *)
(* order on workers the game has spawned.                                  *)
(***************************************************************************)
Update(w, deltaTime) ==
    LET r == WorkerUpdate(worker[w], tree, AllTrees, deltaTime, w) IN
    /\ worker' = [worker EXCEPT ![w] = r.wk]
    /\ tree' = r.tr
    /\ treeCall' = IF r.call = NoTreeCall THEN treeCall ELSE r.call
    /\ UNCHANGED <<harvestTime, gameVars, rmVars, baseVars>>

\* A harvest command that releases the tree the worker was targeting.
HarvestResourceClearsFlag(w, t) ==
    /\ worker' = [worker EXCEPT ![w] = harvestResource(@, t, "base")]
    /\ tree' = IF worker[w].targetResource # NULL
               THEN setBeingHarvested(tree, worker[w].targetResource, FALSE) ELSE tree
    /\ UNCHANGED <<harvestTime, gameVars, treeCall, rmVars, baseVars>>
HarvestResource(w, t) ==
    /\ worker' = [worker EXCEPT ![w] = harvestResource(@, t, "base")]
    /\ UNCHANGED <<harvestTime, gameVars, treeVars, rmVars, baseVars>>

MoveTo(w, target) ==
    /\ worker' = [worker EXCEPT ![w] = moveTo(@, target)]
    /\ UNCHANGED <<harvestTime, gameVars, treeVars, rmVars, baseVars>>

StopTask(w) ==
    LET r == stopTask(worker[w], tree) IN
    /\ worker' = [worker EXCEPT ![w] = r.wk]
    /\ tree' = r.tr
    /\ UNCHANGED <<harvestTime, gameVars, treeCall, rmVars, baseVars>>

CollectCarriedResources(w) ==
    /\ worker' = [worker EXCEPT ![w] = collectCarriedResources(@).wk]
    /\ UNCHANGED <<harvestTime, gameVars, treeVars, rmVars, baseVars>>

\* Tree.harvest called by somebody else (another worker's update).
OtherHarvest(t, amount) == TreeHarvest(t, "other", amount)

\* The wood left in each tree where the harness starts: a game in progress, in
\* which earlier harvests have taken MaxWoodAmount(t) - WoodLeft(t) from tree t.
WoodLeft(t) == IF t = "t1" THEN 8 ELSE 5

WorkerInit ==
    /\ worker = [w \in WorkerIds |-> moveTo(NewWorker(SpawnPos), RallyPoint)]
    /\ tree = [t \in TreeIds |-> [woodAmount |-> WoodLeft(t), isBeingHarvested |-> FALSE]]
    /\ treeCall = NoTreeCall

Next ==
    \/ \E w \in WorkerIds, deltaTime \in DeltaTimes : Update(w, deltaTime)
    \/ \E w \in WorkerIds, t \in TreeIds : HarvestResource(w, t)
    \/ \E w \in WorkerIds, target \in MovePoints : MoveTo(w, target)
    \/ \E w \in WorkerIds : StopTask(w)
    \/ \E w \in WorkerIds : CollectCarriedResources(w)
    \/ \E t \in TreeIds : OtherHarvest(t, BigAmount)




(***************************************************************************)
(* Base: the training queue and the spawn points                           *)
(***************************************************************************)
\* WORKER_CONFIG.trainTime, seconds
TrainTime == 5
\* Base.trainWorker is only exercised while the queue is shorter than MaxQueue.
MaxQueue == 3
\* Frame deltas of the base harness, in ticks (2 s and 3 s at Scale 10).
BaseDeltaTimes == {2 * Scale, 3 * Scale}
\* The indices of the 8 fixed angles of _calculateSpawnPosition (angle i * PI / 4).
SpawnAngles == 0 .. 7

\* A Base.update that advances every order of the queue, not only the head.
baseUpdateAllOrders(queue, ready, deltaTime) ==
    IF Len(queue) > 0 /\ ~ready
    THEN [queue |-> [i \in 1 .. Len(queue) |->
                        [queue[i] EXCEPT !.progress = @ + deltaTime]],
          ready |-> queue[1].progress + deltaTime >= queue[1].totalTime]
    ELSE [queue |-> queue, ready |-> ready]

\* A Base.update that adds the time but never raises the flag.
baseUpdateNoFlag(queue, ready, deltaTime) ==
    IF Len(queue) > 0 /\ ~ready
    THEN [queue |-> [queue EXCEPT ![1].progress = @ + deltaTime], ready |-> ready]
    ELSE [queue |-> queue, ready |-> ready]
\* Base.update(deltaTime), the training queue part: [queue, ready]
baseUpdate(queue, ready, deltaTime) ==
    IF Len(queue) > 0 /\ ~ready
    THEN LET progress == queue[1].progress + deltaTime
         IN [queue |-> [queue EXCEPT ![1].progress = progress],
             ready |-> progress >= queue[1].totalTime]
    ELSE [queue |-> queue, ready |-> ready]

\* Base.trainWorker()
trainWorker(queue) ==
    Append(queue, [type |-> "worker", progress |-> 0, totalTime |-> TrainTime * Scale])

\* BASE_CONFIG.dimensions
BaseWidth == 6
BaseDepth == 6
\* spawnDistance = Math.max(width, depth) / 2 + 1
SpawnDistance == (IF BaseWidth > BaseDepth THEN BaseWidth ELSE BaseDepth) \div 2 + 1
\* The separation below which a candidate is occupied (1.5), in thousandths.
MinSeparation == 1500

\* 1000 * cos(k * PI / 8), k = 0 .. 15, rounded; the fixed angle i is k = 2 * i.
CosTable ==
    <<1000, 924, 707, 383, 0, -383, -707, -924, -1000, -924, -707, -383, 0, 383, 707, 924>>
Cos1000(k) == CosTable[(k % 16) + 1]
Sin1000(k) == Cos1000(k + 12)
\* The angles Math.random() * PI * 2 is sampled at: every k * PI / 8.
RandomAngles == 0 .. 15

\* The point at angle k * PI / 8 and spawnDistance from the base, as <<x, z>> in
\* thousandths of a unit relative to the base (which stands at the origin).
CirclePoint(k) == <<SpawnDistance * Cos1000(k), SpawnDistance * Sin1000(k)>>
\* testPos of the fixed angle i
SpawnPoint(i) == CirclePoint(2 * i)
\* The square of distanceTo, in thousandths squared.
DistanceSquared(p, q) == (p[1] - q[1]) * (p[1] - q[1]) + (p[2] - q[2]) * (p[2] - q[2])
\* The "occupied" loop: spawned holds the angles of the recent spawn points.
Occupied(i, spawned) ==
    \E j \in spawned :
        DistanceSquared(SpawnPoint(i), SpawnPoint(j)) < MinSeparation * MinSeparation

\* A _calculateSpawnPosition whose fallback forgets the spawn distance.
calculateSpawnPositionUnitFallback(spawned, randomAngle) ==
    IF \E i \in SpawnAngles : ~Occupied(i, spawned)
    THEN LET i == CHOOSE i \in SpawnAngles :
                    ~Occupied(i, spawned) /\ \A j \in SpawnAngles : j < i => Occupied(j, spawned)
         IN [angle |-> i, pos |-> SpawnPoint(i), spawned |-> spawned \cup {i}]
    ELSE [angle |-> -1, pos |-> <<Cos1000(randomAngle), Sin1000(randomAngle)>>,
          spawned |-> spawned]

\* Base._calculateSpawnPosition(): [angle, pos, spawned].  angle -1 is the random
\* fallback, whose point is not added to the recent ones.
calculateSpawnPosition(spawned, randomAngle) ==
    IF \E i \in SpawnAngles : ~Occupied(i, spawned)
    THEN LET i == CHOOSE i \in SpawnAngles :
                    ~Occupied(i, spawned) /\ \A j \in SpawnAngles : j < i => Occupied(j, spawned)
         IN [angle |-> i, pos |-> SpawnPoint(i), spawned |-> spawned \cup {i}]
    ELSE [angle |-> -1, pos |-> CirclePoint(randomAngle), spawned |-> spawned]

\* A spawnWorker that drops every order of the queue, not only the head.
spawnWorkerClearsQueue(queue, spawned, randomAngle) ==
    LET p == calculateSpawnPosition(spawned, randomAngle) IN
    [queue |-> <<>>, ready |-> FALSE, spawned |-> p.spawned, angle |-> p.angle,
     pos |-> p.pos]

\* Base.spawnWorker(): [queue, ready, spawned, angle, pos].  It has no failure
\* path: it always returns a new Worker, placed at pos.
spawnWorker(queue, spawned, randomAngle) ==
    LET p == calculateSpawnPosition(spawned, randomAngle) IN
    [queue |-> IF Len(queue) > 0 THEN Tail(queue) ELSE queue,
     ready |-> FALSE, spawned |-> p.spawned, angle |-> p.angle, pos |-> p.pos]

NoWorker == <<>>

BaseInit ==
    /\ trainingQueue = <<>>
    /\ workerReadyToSpawn = FALSE
    /\ spawnedWorkers = {}
    /\ baseCall = [op |-> "new", ready |-> FALSE, queue |-> <<>>, ret |-> NoWorker]

BaseUpdate(deltaTime) ==
    LET r == baseUpdate(trainingQueue, workerReadyToSpawn, deltaTime) IN
    /\ trainingQueue' = r.queue
    /\ workerReadyToSpawn' = r.ready
    /\ baseCall' = [op |-> "update", ready |-> workerReadyToSpawn,
                    queue |-> trainingQueue, ret |-> NoWorker]
    /\ UNCHANGED <<harvestTime, gameVars, spawnedWorkers, rmVars, treeVars, workerVars>>

TrainWorker ==
    /\ Len(trainingQueue) < MaxQueue
    /\ trainingQueue' = trainWorker(trainingQueue)
    /\ baseCall' = [op |-> "trainWorker", ready |-> workerReadyToSpawn,
                    queue |-> trainingQueue, ret |-> NoWorker]
    /\ UNCHANGED <<harvestTime, gameVars, workerReadyToSpawn, spawnedWorkers, rmVars, treeVars, workerVars>>

\* Base.spawnWorker() called at any time; ret is <<angle, pos>>, the worker it
\* returns.  randomAngle is what Math.random() gives when the fallback is taken.
SpawnWorker ==
    \E randomAngle \in IF \E i \in SpawnAngles : ~Occupied(i, spawnedWorkers)
                       THEN {0} ELSE RandomAngles :
    LET r == spawnWorker(trainingQueue, spawnedWorkers, randomAngle) IN
    /\ trainingQueue' = r.queue
    /\ workerReadyToSpawn' = r.ready
    /\ spawnedWorkers' = r.spawned
    /\ baseCall' = [op |-> "spawnWorker", ready |-> workerReadyToSpawn,
                    queue |-> trainingQueue, ret |-> <<r.angle, r.pos>>]
    /\ UNCHANGED <<harvestTime, gameVars, rmVars, treeVars, workerVars>>

\* The setTimeout callback of _calculateSpawnPosition, 2000 ms after the spawn.
SpawnPointExpires(i) ==
    /\ i \in spawnedWorkers
    /\ spawnedWorkers' = spawnedWorkers \ {i}
    /\ UNCHANGED <<harvestTime, gameVars, trainingQueue, workerReadyToSpawn, baseCall, rmVars, treeVars, workerVars>>

(***************************************************************************)
(* Game: the frame loop and the player's commands                          *)
(***************************************************************************)
\* The ids the game gives its workers, in spawn order.
GameWorkerIds == <<"w1", "w2">>
\* The game is driven for at most MaxFrames frames.
MaxFrames == 7
\* Frame deltas of the game, in ticks: 3 s frames.
GameDeltaTimes == {3 * Scale}

\* The x coordinate of a spawn point, in steps: the model's world is the x axis.
SpawnPosAt(pos) == BasePos + (pos[1] * Scale) \div 1000

\* n counts the frames run so far.
NoFrame ==
    [n |-> 0, deltaTime |-> 0, spawned |-> NULL, updated |-> <<>>, collected |-> <<>>]

\* A worker loop that adds what a DELIVERING worker carries to the inventory but
\* leaves it in the worker's hands.
RECURSIVE UpdateWorkersNoDrain(_, _, _)
UpdateWorkersNoDrain(i, deltaTime, st) ==
    IF i = 0 THEN st
    ELSE LET w == st.workers[i]
             r == WorkerUpdate(st.worker[w], st.tree, st.trees, deltaTime, w)
             ready == r.wk.state = "DELIVERING"
             res1 == IF ready /\ r.wk.carriedResources.wood > 0
                     THEN addResource(st.resources, "wood", r.wk.carriedResources.wood)
                     ELSE st.resources
         IN UpdateWorkersNoDrain(i - 1, deltaTime,
                [st EXCEPT !.worker[w] = r.wk,
                           !.tree = r.tr,
                           !.treeCall = IF r.call = NoTreeCall THEN @ ELSE r.call,
                           !.resources = res1,
                           !.updated = Append(@, w),
                           !.collected = IF ready THEN Append(@, w) ELSE @])
\* The "Update workers" loop of Game._update, from index i down to 1: update the
\* worker, and collect what it carries when it is DELIVERING.
RECURSIVE UpdateWorkers(_, _, _)
UpdateWorkers(i, deltaTime, st) ==
    IF i = 0 THEN st
    ELSE LET w == st.workers[i]
             r == WorkerUpdate(st.worker[w], st.tree, st.trees, deltaTime, w)
             ready == r.wk.state = "DELIVERING"
             c == collectCarriedResources(r.wk)
             res1 == IF ready /\ c.resources.wood > 0
                     THEN addResource(st.resources, "wood", c.resources.wood)
                     ELSE st.resources
             res2 == IF ready /\ c.resources.food > 0
                     THEN addResource(res1, "food", c.resources.food) ELSE res1
             res3 == IF ready /\ c.resources.stone > 0
                     THEN addResource(res2, "stone", c.resources.stone) ELSE res2
         IN UpdateWorkers(i - 1, deltaTime,
                [st EXCEPT !.worker[w] = IF ready THEN c.wk ELSE r.wk,
                           !.tree = r.tr,
                           !.treeCall = IF r.call = NoTreeCall THEN @ ELSE r.call,
                           !.resources = res3,
                           !.updated = Append(@, w),
                           !.collected = IF ready THEN Append(@, w) ELSE @])

\* A frame that leaves depleted trees in the scene.
GameUpdateKeepsTrees(deltaTime, randomAngle) ==
    LET b == baseUpdate(trainingQueue, workerReadyToSpawn, deltaTime)
        s == spawnWorker(b.queue, spawnedWorkers, randomAngle)
        id == GameWorkerIds[Len(workers) + 1]
        newWorker == moveTo(NewWorker(SpawnPosAt(s.pos)), RallyPoint)
        worker1 == IF b.ready
                   THEN [w \in DOMAIN worker \cup {id} |->
                            IF w = id THEN newWorker ELSE worker[w]]
                   ELSE worker
        workers1 == IF b.ready THEN Append(workers, id) ELSE workers
        st == UpdateWorkers(Len(workers1), deltaTime,
                  [workers |-> workers1, worker |-> worker1, tree |-> tree,
                   trees |-> trees, treeCall |-> treeCall, resources |-> resources,
                   updated |-> <<>>, collected |-> <<>>])
    IN /\ frame.n < MaxFrames
       /\ b.ready => Len(workers) < Len(GameWorkerIds)
       /\ trainingQueue' = IF b.ready THEN s.queue ELSE b.queue
       /\ workerReadyToSpawn' = IF b.ready THEN s.ready ELSE b.ready
       /\ spawnedWorkers' = IF b.ready THEN s.spawned ELSE spawnedWorkers
       /\ baseCall' = IF b.ready
                      THEN [op |-> "spawnWorker", ready |-> b.ready, queue |-> b.queue,
                            ret |-> <<s.angle, s.pos>>]
                      ELSE [op |-> "update", ready |-> workerReadyToSpawn,
                            queue |-> trainingQueue, ret |-> NoWorker]
       /\ workers' = workers1
       /\ worker' = st.worker
       /\ tree' = st.tree
       /\ treeCall' = st.treeCall
       /\ resources' = st.resources
       /\ rmCall' = rmCall
       /\ harvestTime' = harvestTime
       /\ finderCall' = finderCall
       /\ commands' = commands
       /\ trees' = trees
       /\ frame' = [n |-> frame.n + 1, deltaTime |-> deltaTime,
                    spawned |-> IF b.ready THEN id ELSE NULL,
                    updated |-> st.updated, collected |-> st.collected]
\* Game._update(deltaTime), not paused.  randomAngle is the angle Math.random()
\* gives the spawn point when all 8 fixed angles are occupied.
GameUpdate(deltaTime, randomAngle) ==
    LET b == baseUpdate(trainingQueue, workerReadyToSpawn, deltaTime)
        s == spawnWorker(b.queue, spawnedWorkers, randomAngle)
        id == GameWorkerIds[Len(workers) + 1]
        newWorker == moveTo(NewWorker(SpawnPosAt(s.pos)), RallyPoint)
        worker1 == IF b.ready
                   THEN [w \in DOMAIN worker \cup {id} |->
                            IF w = id THEN newWorker ELSE worker[w]]
                   ELSE worker
        workers1 == IF b.ready THEN Append(workers, id) ELSE workers
        st == UpdateWorkers(Len(workers1), deltaTime,
                  [workers |-> workers1, worker |-> worker1, tree |-> tree,
                   trees |-> trees, treeCall |-> treeCall, resources |-> resources,
                   updated |-> <<>>, collected |-> <<>>])
    IN /\ frame.n < MaxFrames
       /\ b.ready => Len(workers) < Len(GameWorkerIds)
       /\ trainingQueue' = IF b.ready THEN s.queue ELSE b.queue
       /\ workerReadyToSpawn' = IF b.ready THEN s.ready ELSE b.ready
       /\ spawnedWorkers' = IF b.ready THEN s.spawned ELSE spawnedWorkers
       /\ baseCall' = IF b.ready
                      THEN [op |-> "spawnWorker", ready |-> b.ready, queue |-> b.queue,
                            ret |-> <<s.angle, s.pos>>]
                      ELSE [op |-> "update", ready |-> workerReadyToSpawn,
                            queue |-> trainingQueue, ret |-> NoWorker]
       /\ workers' = workers1
       /\ worker' = st.worker
       /\ tree' = st.tree
       /\ treeCall' = st.treeCall
       /\ resources' = st.resources
       /\ rmCall' = rmCall
       /\ harvestTime' = harvestTime
       /\ finderCall' = finderCall
       /\ commands' = commands
       /\ trees' = SelectSeq(trees, LAMBDA t : ~isDepleted(st.tree, t))
       /\ frame' = [n |-> frame.n + 1, deltaTime |-> deltaTime,
                    spawned |-> IF b.ready THEN id ELSE NULL,
                    updated |-> st.updated, collected |-> st.collected]

\* The "Train Worker" button: Game._trainWorker with the base selected.  The game
\* is only driven until every id of GameWorkerIds is spawned or queued.
GameTrainWorker ==
    /\ Len(workers) + Len(trainingQueue) < Len(GameWorkerIds)
    /\ trainingQueue' = trainWorker(trainingQueue)
    /\ baseCall' = [op |-> "trainWorker", ready |-> workerReadyToSpawn,
                    queue |-> trainingQueue, ret |-> NoWorker]
    /\ UNCHANGED <<harvestTime, gameVars, workerReadyToSpawn, spawnedWorkers, rmVars, treeVars, workerVars>>

\* Game._handleRightClick on a tree of the scene that is not depleted, with worker
\* w selected.
RightClickTree(w, t) ==
    /\ w \in DOMAIN worker
    /\ \E i \in 1 .. Len(trees) : trees[i] = t
    /\ ~isDepleted(tree, t)
    /\ worker' = [worker EXCEPT ![w] = harvestResource(@, t, "base")]
    /\ UNCHANGED <<harvestTime, gameVars, treeVars, rmVars, baseVars>>

\* Game._handleRightClick on the ground, with worker w selected.
RightClickGround(w, target) ==
    /\ w \in DOMAIN worker
    /\ worker' = [worker EXCEPT ![w] = moveTo(@, target)]
    /\ UNCHANGED <<harvestTime, gameVars, treeVars, rmVars, baseVars>>

\* The first worker of a game in progress: it has just delivered at the delivery
\* point on the trees' side of the base, and its update in DELIVERING has sent it
\* back to t1, the tree it is assigned to.
FirstWorker ==
    UpdateDelivering(
        [NewWorker(BasePos - BASE_DELIVERY_RANGE * Scale) EXCEPT
            !.state = "DELIVERING", !.homeBase = "base",
            !.assignedResource = "t1", !.targetResource = "t1"],
        [t \in TreeIds |-> [woodAmount |-> WoodLeft(t), isBeingHarvested |-> FALSE]],
        AllTrees)

\* The game in progress: one worker at work, a second one not trained yet, the
\* trees partly harvested and the wood taken from them delivered.
GameInit ==
    /\ worker = [w \in {"w1"} |-> FirstWorker]
    /\ workers = <<"w1">>
    /\ trees = AllTrees
    /\ frame = NoFrame
    /\ harvestTime = 0
    /\ finderCall = NoFinderCall
    /\ commands = 0
    /\ tree = [t \in TreeIds |-> [woodAmount |-> WoodLeft(t), isBeingHarvested |-> FALSE]]
    /\ treeCall = NoTreeCall
    /\ resources = [InitialResources EXCEPT
                        !.wood = @ + (MaxWoodAmount("t1") - WoodLeft("t1"))
                                   + (MaxWoodAmount("t2") - WoodLeft("t2"))]
    /\ rmCall = [op |-> "new", type |-> NULL, amount |-> 0, cost |-> NoCost,
                 ret |-> TRUE, before |-> InitialResources]

(***************************************************************************)
(* Specifications                                                          *)
(***************************************************************************)
\* The game object around a harness: its lists hold the harness's workers and
\* trees, and no frame has run.
HarnessGame ==
    /\ workers = <<"w1">>
    /\ trees = AllTrees
    /\ frame = NoFrame
    /\ harvestTime = 0
    /\ finderCall = NoFinderCall
    /\ commands = 0

\* The state after construction: the initial inventory, full trees, an idle base,
\* and the workers as Base.spawnWorker returns them.
InitNew ==
    /\ RMInit
    /\ TreeInit
    /\ BaseInit
    /\ worker = [w \in WorkerIds |-> moveTo(NewWorker(SpawnPos), RallyPoint)]
    /\ HarnessGame

\* The unit harness starts from a game in progress (trees partly harvested).
Init ==
    /\ RMInit
    /\ BaseInit
    /\ WorkerInit
    /\ HarnessGame

Spec == Init /\ [][Next]_vars

RMNext ==
    \/ \E type \in ResourceType, amount \in Amounts : AddResource(type, amount)
    \/ \E type \in ResourceType, amount \in Amounts : RemoveResource(type, amount)
    \/ \E cost \in Costs : DeductCost(cost)

SpecRM == InitNew /\ [][RMNext]_vars

TreeNext ==
    \E t \in TreeIds, by \in WorkerIds \cup {"other"}, amount \in HarvestRequests :
        TreeHarvest(t, by, amount)

SpecTree == InitNew /\ [][TreeNext]_vars

BaseNext ==
    \/ \E deltaTime \in BaseDeltaTimes : BaseUpdate(deltaTime)
    \/ TrainWorker
    \/ SpawnWorker
    \/ \E i \in SpawnAngles : SpawnPointExpires(i)

SpecBase == InitNew /\ [][BaseNext]_vars

\* The game as the player drives it, from a game in progress.
InitGame ==
    /\ BaseInit
    /\ GameInit

GameNext ==
    \/ \E deltaTime \in GameDeltaTimes,
          randomAngle \in IF \E i \in SpawnAngles : ~Occupied(i, spawnedWorkers)
                          THEN {0} ELSE RandomAngles :
            GameUpdate(deltaTime, randomAngle)
    \/ GameTrainWorker
    \/ \E w \in DOMAIN worker, t \in TreeIds : RightClickTree(w, t)
    \/ \E w \in DOMAIN worker, target \in MovePoints : RightClickGround(w, target)
    \/ \E i \in SpawnAngles : SpawnPointExpires(i)

SpecGame == InitGame /\ [][GameNext]_vars

\* The frame deltas of the harvest run, in ticks (0.5 s, 0.9 s, 1 s, 3 s and 4 s).
HarvestDeltaTimes == {Scale \div 2, (9 * Scale) \div 10, Scale, 3 * Scale, 4 * Scale}

\* A worker that has just reached t1, a tree nobody has harvested yet, and has gone
\* from MOVING_TO_RESOURCE to HARVESTING there, carrying nothing.
ArrivedWorker ==
    UpdateMovingToResource(
        [NewWorker(NearResource(SpawnPos, TreePos("t1"))) EXCEPT
            !.state = "MOVING_TO_RESOURCE", !.homeBase = "base",
            !.assignedResource = "t1", !.targetResource = "t1"],
        NewTrees)

InitHarvest ==
    /\ RMInit
    /\ BaseInit
    /\ HarnessGame
    /\ worker = [w \in WorkerIds |-> ArrivedWorker.wk]
    /\ tree = ArrivedWorker.tr
    /\ treeCall = NoTreeCall

\* Worker.update in an uninterrupted run: nobody else touches the worker or its
\* tree, and the run ends when the worker is ready to deliver.
HarvestAdvance(w, deltaTime) ==
    LET r == WorkerUpdate(worker[w], tree, AllTrees, deltaTime, w) IN
    /\ worker[w].state # "DELIVERING"
    /\ worker' = [worker EXCEPT ![w] = r.wk]
    /\ tree' = r.tr
    /\ treeCall' = IF r.call = NoTreeCall THEN treeCall ELSE r.call
    /\ harvestTime' = IF worker[w].state = "HARVESTING"
                      THEN harvestTime + deltaTime ELSE harvestTime
    /\ UNCHANGED <<gameVars, rmVars, baseVars>>

HarvestNext == \E w \in WorkerIds, deltaTime \in HarvestDeltaTimes : HarvestAdvance(w, deltaTime)

SpecHarvest == InitHarvest /\ [][HarvestNext]_vars

\* The finder on its own.  Game._trees in the orders and with the removals the
\* game can produce, trees with and without wood, and a worker anywhere between
\* the far side of the trees and the base, with or without an assigned resource.
TreeLists == {<<>>, <<"t1">>, <<"t2">>, <<"t1", "t2">>, <<"t2", "t1">>}
FinderWood == {0, 5}
FinderPositions ==
    {BasePos, -3 * Scale, -4 * Scale, -18 * Scale, -19 * Scale, -34 * Scale}

InitFinder ==
    /\ RMInit
    /\ BaseInit
    /\ workers = <<"w1">>
    /\ frame = NoFrame
    /\ harvestTime = 0
    /\ finderCall = NoFinderCall
    /\ commands = 0
    /\ treeCall = NoTreeCall
    /\ trees \in TreeLists
    /\ tree \in [TreeIds -> [woodAmount : FinderWood, isBeingHarvested : {FALSE}]]
    /\ \E pos \in FinderPositions, t \in TreeIds \cup {NULL} :
          worker = [w \in WorkerIds |->
                       [NewWorker(pos) EXCEPT !.state = "DELIVERING", !.homeBase = "base",
                                              !.assignedResource = t, !.targetResource = t]]

\* A call of this._findNearbyTree(worker)
FindNearbyTree(w) ==
    /\ ~finderCall.called
    /\ finderCall' = [list |-> trees,
                      wood |-> [t \in TreeIds |-> tree[t].woodAmount],
                      searchPos |-> IF worker[w].assignedResource # NULL
                                    THEN TreePos(worker[w].assignedResource)
                                    ELSE worker[w].position,
                      ret |-> findNearbyTree(trees, tree, worker[w]),
                      called |-> TRUE]
    /\ UNCHANGED <<harvestTime, workers, trees, frame, commands, rmVars, treeVars, workerVars, baseVars>>

FinderNext == \E w \in WorkerIds : FindNearbyTree(w)

SpecFinder == InitFinder /\ [][FinderNext]_vars

\* A unit on its own: Unit.update and Unit.moveTo.  The deltas include an empty
\* frame and a single tick; the targets include a point that no sequence of whole
\* steps from the spawn point lands on.
UnitDeltaTimes == {0, 1, Scale \div 2, 3 * Scale}
UnitTargets == {RallyPoint, -10 * Scale, BasePos + 3}

UnitAdvance(w, deltaTime) ==
    /\ worker' = [worker EXCEPT ![w] = UnitUpdate(@, deltaTime)]
    /\ UNCHANGED <<harvestTime, gameVars, treeVars, rmVars, baseVars>>

UnitNext ==
    \/ \E w \in WorkerIds, deltaTime \in UnitDeltaTimes : UnitAdvance(w, deltaTime)
    \/ \E w \in WorkerIds, target \in UnitTargets : MoveTo(w, target)

SpecUnit == InitNew /\ [][UnitNext]_vars

\* The endless game: the loop keeps running frames, nobody trains workers, and the
\* player makes at most MaxCommands right-clicks.
MaxCommands == 2
LiveDeltaTimes == {Scale \div 2, 3 * Scale}

\* Game._update(deltaTime) with an idle base.
LiveFrame(deltaTime) ==
    LET b == baseUpdate(trainingQueue, workerReadyToSpawn, deltaTime)
        st == UpdateWorkers(Len(workers), deltaTime,
                  [workers |-> workers, worker |-> worker, tree |-> tree,
                   trees |-> trees, treeCall |-> treeCall, resources |-> resources,
                   updated |-> <<>>, collected |-> <<>>])
    IN /\ ~b.ready
       /\ trainingQueue' = b.queue
       /\ workerReadyToSpawn' = b.ready
       /\ worker' = st.worker
       /\ tree' = st.tree
       /\ treeCall' = st.treeCall
       /\ resources' = st.resources
       /\ trees' = SelectSeq(trees, LAMBDA t : ~isDepleted(st.tree, t))
       /\ UNCHANGED <<harvestTime, workers, frame, finderCall, commands, rmCall,
                      spawnedWorkers, baseCall>>

\* A right-click of the player, while it has commands left.
LiveRightClickTree(w, t) ==
    /\ commands < MaxCommands
    /\ w \in DOMAIN worker
    /\ \E i \in 1 .. Len(trees) : trees[i] = t
    /\ ~isDepleted(tree, t)
    /\ worker' = [worker EXCEPT ![w] = harvestResource(@, t, "base")]
    /\ commands' = commands + 1
    /\ UNCHANGED <<harvestTime, workers, trees, frame, finderCall, treeVars, rmVars, baseVars>>

LiveRightClickGround(w, target) ==
    /\ commands < MaxCommands
    /\ w \in DOMAIN worker
    /\ worker' = [worker EXCEPT ![w] = moveTo(@, target)]
    /\ commands' = commands + 1
    /\ UNCHANGED <<harvestTime, workers, trees, frame, finderCall, treeVars, rmVars, baseVars>>

LiveTick == \E deltaTime \in LiveDeltaTimes : LiveFrame(deltaTime)

LiveNext ==
    \/ LiveTick
    \/ \E w \in DOMAIN worker, t \in TreeIds : LiveRightClickTree(w, t)
    \/ \E w \in DOMAIN worker, target \in MovePoints : LiveRightClickGround(w, target)

\* requestAnimationFrame keeps calling the loop: a frame that can change something
\* is eventually run.
SpecLive == InitGame /\ [][LiveNext]_vars /\ WF_vars(LiveTick)

(***************************************************************************)
(* Properties                                                              *)
(***************************************************************************)
CarriedKinds == {"wood", "food", "stone"}

\* C1: removeResource(type, amount) returns true iff amount <= the quantity of that
\* type before the call, and when it returns false the whole inventory is what it
\* was before the call.
C1_RemoveSucceedsIffEnough ==
    rmCall.op = "removeResource" =>
        /\ rmCall.ret <=> (rmCall.amount <= rmCall.before[rmCall.type])
        /\ ~rmCall.ret => resources = rmCall.before
\* A removeResource that failed on a kind the player holds some of.
C1_Witness ==
    /\ rmCall.op = "removeResource"
    /\ ~rmCall.ret
    /\ rmCall.before[rmCall.type] > 0

\* C2: deductCost(cost) is all-or-nothing: if some kind named in the cost is
\* insufficient it returns false and the inventory is unchanged; otherwise it
\* returns true and every named kind is reduced by exactly its cost (the other
\* kinds keep their quantity).
C2_DeductCostAllOrNothing ==
    rmCall.op = "deductCost" =>
        LET cost == rmCall.cost
            before == rmCall.before
        IN IF \E type \in DOMAIN cost : before[type] < cost[type]
           THEN ~rmCall.ret /\ resources = before
           ELSE /\ rmCall.ret
                /\ \A type \in ResourceType :
                      resources[type] =
                        before[type] - (IF type \in DOMAIN cost THEN cost[type] ELSE 0)
\* A deductCost that failed although one of its kinds could be paid: the cost
\* {wood: 50, stone: 1000000} against 50 or more wood.
C2_Witness ==
    /\ rmCall.op = "deductCost"
    /\ ~rmCall.ret
    /\ \E type \in DOMAIN rmCall.cost :
          rmCall.cost[type] > 0 /\ rmCall.before[type] >= rmCall.cost[type]

\* C3: after any sequence of addResource, removeResource and deductCost calls with
\* non-negative amounts, every quantity is >= 0.
C3_QuantitiesNonNegative == \A type \in ResourceType : resources[type] >= 0
\* A kind the player started with some of has been spent down to exactly 0.
C3_Witness ==
    /\ \E type \in ResourceType : InitialResources[type] > 0 /\ resources[type] = 0
    /\ rmCall.op \in {"removeResource", "deductCost"}
    /\ rmCall.ret

\* C4: every Tree.harvest call, whoever makes it, returns min(requested, remaining)
\* and reduces the remaining wood by exactly that; the remaining wood stays within
\* 0 .. capacity; a call on a depleted tree returns 0 and changes nothing.
C4_HarvestClamps ==
    /\ \A t \in TreeIds : tree[t].woodAmount >= 0 /\ tree[t].woodAmount <= MaxWoodAmount(t)
    /\ treeCall.tree # NULL =>
          /\ treeCall.ret = Min(treeCall.amount, treeCall.before)
          /\ tree[treeCall.tree].woodAmount = treeCall.before - treeCall.ret
          /\ tree[treeCall.tree].woodAmount <= treeCall.before
          /\ treeCall.before = 0 => treeCall.ret = 0 /\ tree[treeCall.tree].woodAmount = 0
\* A harvest of a positive amount on a tree that was already depleted.
C4_Witness ==
    /\ treeCall.tree # NULL
    /\ treeCall.before = 0
    /\ treeCall.amount > 0

\* C5 (as claimed): in every reachable state the carried amount of each kind is at
\* most MAX_CARRY_CAPACITY.
C5_CarriedWithinCapacity ==
    \A w \in WorkerIds, kind \in CarriedKinds :
        worker[w].carriedResources[kind] <= MAX_CARRY_CAPACITY

\* C6 (as claimed): a worker whose state is HARVESTING has a non-null, non-depleted
\* targetResource.
C6_HarvestingTargetNotDepleted ==
    \A w \in WorkerIds :
        worker[w].state = "HARVESTING" =>
            /\ worker[w].targetResource # NULL
            /\ ~isDepleted(tree, worker[w].targetResource)
\* C6 (amended): a worker whose state is HARVESTING has a non-null targetResource;
\* the target can be depleted between updates, and then the worker's next update,
\* whatever its delta, takes it out of HARVESTING.
C6_HarvestingTargetSetAndDepletionLeaves ==
    \A w \in WorkerIds :
        worker[w].state = "HARVESTING" =>
            /\ worker[w].targetResource # NULL
            /\ isDepleted(tree, worker[w].targetResource) =>
                  \A deltaTime \in DeltaTimes :
                      WorkerUpdate(worker[w], tree, AllTrees, deltaTime, w).wk.state
                          # "HARVESTING"
\* A worker is HARVESTING a tree that its own last harvest emptied.
C6_Witness ==
    \E w \in WorkerIds :
        /\ worker[w].state = "HARVESTING"
        /\ worker[w].targetResource # NULL
        /\ isDepleted(tree, worker[w].targetResource)
        /\ treeCall.by = w
        /\ treeCall.tree = worker[w].targetResource

\* C7: a worker whose state is IDLE has targetResource = null and
\* assignedResource = null.
C7_IdleHasNoResource ==
    \A w \in WorkerIds :
        worker[w].state = "IDLE" =>
            worker[w].targetResource = NULL /\ worker[w].assignedResource = NULL
\* A worker that was given a task is IDLE again, with every tree depleted.
C7_Witness ==
    \E w \in WorkerIds :
        /\ worker[w].state = "IDLE"
        /\ worker[w].homeBase # NULL
        /\ \A t \in TreeIds : isDepleted(tree, t)

\* C8: a unit is moving iff its targetPosition is non-null.
C8_MovingIffTargetPosition ==
    \A w \in WorkerIds : worker[w].isMoving <=> (worker[w].targetPosition # NoPosition)
\* A worker has arrived next to its tree: it is HARVESTING and stands still.
C8_Witness ==
    \E w \in WorkerIds :
        /\ worker[w].state = "HARVESTING"
        /\ ~worker[w].isMoving
        /\ worker[w].targetPosition = NoPosition

\* C9: the ready flag is true exactly when the queue is non-empty and the head's
\* progress is >= its totalTime; a call other than spawnWorker made while it is set
\* leaves it set and the head untouched, and a spawnWorker made while it is set
\* pops the head and clears it.
C9_ReadyFlag ==
    /\ workerReadyToSpawn <=>
          (Len(trainingQueue) > 0 /\ trainingQueue[1].progress >= trainingQueue[1].totalTime)
    /\ (baseCall.ready /\ baseCall.op # "spawnWorker") =>
          /\ workerReadyToSpawn
          /\ trainingQueue[1] = baseCall.queue[1]
    /\ (baseCall.ready /\ baseCall.op = "spawnWorker") =>
          /\ ~workerReadyToSpawn
          /\ trainingQueue = Tail(baseCall.queue)
\* An update was made while a worker was ready to spawn.
C9_Witness ==
    /\ workerReadyToSpawn
    /\ baseCall.op = "update"
    /\ baseCall.ready

\* C10 (as claimed): spawnWorker called while hasWorkerReady() is false fails: it
\* pops no order and returns no worker.
C10_SpawnWhenNotReadyFails ==
    (baseCall.op = "spawnWorker" /\ ~baseCall.ready) =>
        /\ baseCall.ret = NoWorker
        /\ trainingQueue = baseCall.queue

\* C11: an order enqueued on an empty queue starts with progress 0 and the flag
\* down; every update made while the flag is down adds exactly deltaTime to the
\* head's progress and raises the flag iff the sum has reached totalTime (so with
\* totalTime 5 s the flag rises at update(3 s), update(2 s) and not before); a
\* spawnWorker made while the flag is up removes exactly the head: the queue is one
\* shorter and the remaining orders keep their order.
C11_ReadyWhenSumReachesTotal ==
    [][ /\ \A deltaTime \in BaseDeltaTimes :
              (BaseUpdate(deltaTime) /\ Len(trainingQueue) > 0 /\ ~workerReadyToSpawn) =>
                  /\ trainingQueue'[1].progress = trainingQueue[1].progress + deltaTime
                  /\ workerReadyToSpawn' <=>
                        (trainingQueue[1].progress + deltaTime >= trainingQueue[1].totalTime)
        /\ (TrainWorker /\ trainingQueue = <<>>) =>
              /\ trainingQueue'[1].progress = 0
              /\ ~workerReadyToSpawn'
        /\ (SpawnWorker /\ workerReadyToSpawn) =>
              /\ Len(trainingQueue') = Len(trainingQueue) - 1
              /\ \A i \in 1 .. Len(trainingQueue') : trainingQueue'[i] = trainingQueue[i + 1]
      ]_vars
\* A worker was spawned from a queue of two or more orders whose head had become
\* ready with its progress exactly at totalTime (3 s + 2 s).
C11_Witness ==
    /\ baseCall.op = "spawnWorker"
    /\ baseCall.ready
    /\ Len(baseCall.queue) >= 2
    /\ baseCall.queue[1].progress = baseCall.queue[1].totalTime
    /\ Len(trainingQueue) = Len(baseCall.queue) - 1

\* C12: in every reachable worker state, collectCarriedResources returns exactly the
\* amounts carried, leaves every kind at zero and changes no other field, and a
\* second call made right after it returns zero for every kind.
C12_CollectDrainsOnce ==
    \A w \in WorkerIds :
        LET first == collectCarriedResources(worker[w])
            second == collectCarriedResources(first.wk)
        IN /\ first.resources = worker[w].carriedResources
           /\ first.wk = [worker[w] EXCEPT !.carriedResources = first.wk.carriedResources]
           /\ \A kind \in CarriedKinds : first.wk.carriedResources[kind] = 0
           /\ \A kind \in CarriedKinds : second.resources[kind] = 0
\* A worker that carries wood outside DELIVERING, where the game never collects.
C12_Witness ==
    \E w \in WorkerIds :
        /\ worker[w].carriedResources.wood > 0
        /\ worker[w].state = "HARVESTING"
        /\ collectCarriedResources(worker[w]).resources.wood > 0

\* C13 (as claimed): in a frame in which the base spawns a worker, the new worker
\* is not among the workers that frame updates.
C13_NewWorkerNotUpdatedInSpawnFrame ==
    frame.spawned # NULL =>
        \A i \in 1 .. Len(frame.updated) : frame.updated[i] # frame.spawned

\* C14: harvestResource(t, base) called in any reachable worker state leaves the
\* worker in MOVING_TO_RESOURCE with targetResource = assignedResource = t and
\* homeBase = base, moving to a point within HARVEST_RANGE of t (and not on it); it
\* changes neither the worker's position nor what it carries.
C14_HarvestResourceFromAnyState ==
    \A w \in WorkerIds, t \in TreeIds :
        LET wk == harvestResource(worker[w], t, "base") IN
        /\ wk.state = "MOVING_TO_RESOURCE"
        /\ wk.targetResource = t
        /\ wk.assignedResource = t
        /\ wk.homeBase = "base"
        /\ wk.isMoving
        /\ wk.targetPosition # NoPosition
        /\ Abs(wk.targetPosition[1] - TreePos(t)) <= HARVEST_RANGE * Scale
        /\ wk.targetPosition[1] # TreePos(t)
        /\ wk.position = worker[w].position
        /\ wk.carriedResources = worker[w].carriedResources
\* A worker that is harvesting t1 and carries wood can be sent to t2; workers in
\* each of the five states are reachable.
C14_Witness ==
    /\ \E w \in WorkerIds :
          /\ worker[w].state = "HARVESTING"
          /\ worker[w].targetResource = "t1"
          /\ worker[w].carriedResources.wood > 0
          /\ harvestResource(worker[w], "t2", "base").assignedResource = "t2"

\* C15: stopTask called in any reachable worker state leaves the worker IDLE with
\* targetResource and assignedResource null, not moving and without a target
\* position; the tree that was its target is no longer flagged as being harvested
\* and no other tree changes; what it carries, its home base, its position and its
\* harvest timer are unchanged.
C15_StopTaskFromAnyState ==
    \A w \in WorkerIds :
        LET r == stopTask(worker[w], tree)
            target == worker[w].targetResource
        IN /\ r.wk.state = "IDLE"
           /\ r.wk.targetResource = NULL
           /\ r.wk.assignedResource = NULL
           /\ ~r.wk.isMoving
           /\ r.wk.targetPosition = NoPosition
           /\ r.wk.carriedResources = worker[w].carriedResources
           /\ r.wk.homeBase = worker[w].homeBase
           /\ r.wk.position = worker[w].position
           /\ r.wk.harvestTimer = worker[w].harvestTimer
           /\ target # NULL => ~r.tr[target].isBeingHarvested
           /\ \A t \in TreeIds : t # target => r.tr[t] = tree[t]
           /\ \A t \in TreeIds : r.tr[t].woodAmount = tree[t].woodAmount
\* A worker that carries wood, is harvesting and whose target is flagged.
C15_Witness ==
    \E w \in WorkerIds :
        /\ worker[w].state = "HARVESTING"
        /\ worker[w].carriedResources.wood > 0
        /\ worker[w].targetResource # NULL
        /\ tree[worker[w].targetResource].isBeingHarvested
        /\ ~stopTask(worker[w], tree).tr[worker[w].targetResource].isBeingHarvested

\* C16 (as claimed): a worker harvesting uninterrupted from a tree that holds more
\* wood than it can carry is out of HARVESTING before it has spent more than 2
\* seconds harvesting; once it has left HARVESTING it is on its way to the base (or
\* ready to deliver) and carries exactly MAX_CARRY_CAPACITY; while it harvests it
\* carries less than that.
C16_FullWithinTwoSeconds ==
    \A w \in WorkerIds :
        /\ worker[w].state = "HARVESTING" =>
              /\ harvestTime < 2 * Scale
              /\ worker[w].carriedResources.wood < MAX_CARRY_CAPACITY
        /\ worker[w].state # "HARVESTING" =>
              /\ worker[w].state \in {"RETURNING_TO_BASE", "DELIVERING"}
              /\ harvestTime <= 2 * Scale
              /\ worker[w].carriedResources.wood = MAX_CARRY_CAPACITY

C18_SpawnPlacement ==
    [][ SpawnWorker =>
          LET angle == baseCall'.ret[1]
              pos == baseCall'.ret[2]
              radiusSquared == pos[1] * pos[1] + pos[2] * pos[2]
              free(i) == \A j \in spawnedWorkers :
                            DistanceSquared(SpawnPoint(i), SpawnPoint(j))
                                >= MinSeparation * MinSeparation
          IN /\ radiusSquared >= (SpawnDistance * 1000 - 3) * (SpawnDistance * 1000 - 3)
             /\ radiusSquared <= (SpawnDistance * 1000 + 3) * (SpawnDistance * 1000 + 3)
             /\ IF \E i \in SpawnAngles : free(i)
                THEN \E i \in SpawnAngles :
                        /\ free(i)
                        /\ \A j \in SpawnAngles : j < i => ~free(j)
                        /\ angle = i
                        /\ pos = SpawnPoint(i)
                        /\ spawnedWorkers' = spawnedWorkers \cup {i}
                ELSE /\ angle = -1
                     /\ spawnedWorkers' = spawnedWorkers
      ]_vars
\* A worker was spawned at a random angle, all 8 candidates being occupied.
C18_Witness ==
    /\ baseCall.op = "spawnWorker"
    /\ baseCall.ret[1] = -1
    /\ spawnedWorkers = SpawnAngles

\* C19: every order behind the head has progress 0, and an update made while the
\* queue is empty or while a worker is already ready to spawn leaves the queue, and
\* so every order's progress, as it was.
C19_OnlyHeadProgresses ==
    /\ \A i \in 2 .. Len(trainingQueue) : trainingQueue[i].progress = 0
    /\ (baseCall.op = "update" /\ (baseCall.queue = <<>> \/ baseCall.ready)) =>
          trainingQueue = baseCall.queue
\* An update was made while the head was ready and another order waited behind it.
C19_Witness ==
    /\ baseCall.op = "update"
    /\ baseCall.ready
    /\ Len(trainingQueue) >= 2
    /\ trainingQueue[1].progress >= trainingQueue[1].totalTime
    /\ trainingQueue[2].progress = 0

\* C20 (as claimed): an update in HARVESTING with a live target adds deltaTime to
\* the harvest timer; below one second nothing else changes; from one second on the
\* worker harvests floor(timer * HARVEST_RATE), the tree gives min(that, its wood),
\* the yield is added to the carried wood, and the timer keeps its sub-second part.
C20_HarvestKeepsRemainder ==
    [][ \A w \in WorkerIds, deltaTime \in DeltaTimes :
          LET target == worker[w].targetResource
              accumulator == worker[w].harvestTimer + deltaTime
              amount == (accumulator * HARVEST_RATE) \div Scale
              yield == Min(amount, tree[target].woodAmount)
          IN (/\ Update(w, deltaTime)
              /\ worker[w].state = "HARVESTING"
              /\ target # NULL
              /\ ~isDepleted(tree, target)) =>
                IF accumulator < Scale
                THEN /\ worker'[w].harvestTimer = accumulator
                     /\ worker'[w].carriedResources = worker[w].carriedResources
                     /\ tree' = tree
                ELSE /\ tree'[target].woodAmount = tree[target].woodAmount - yield
                     /\ worker'[w].carriedResources.wood =
                            worker[w].carriedResources.wood + yield
                     /\ worker'[w].harvestTimer = accumulator % Scale
      ]_vars

\* C20 (amended): as above, but the harvest resets the timer to 0: the sub-second
\* part has been counted in the amount harvested and is not kept.
C20_HarvestResetsTimer ==
    [][ \A w \in WorkerIds, deltaTime \in DeltaTimes :
          LET target == worker[w].targetResource
              accumulator == worker[w].harvestTimer + deltaTime
              amount == (accumulator * HARVEST_RATE) \div Scale
              yield == Min(amount, tree[target].woodAmount)
          IN (/\ Update(w, deltaTime)
              /\ worker[w].state = "HARVESTING"
              /\ target # NULL
              /\ ~isDepleted(tree, target)) =>
                IF accumulator < Scale
                THEN /\ worker'[w].harvestTimer = accumulator
                     /\ worker'[w].carriedResources = worker[w].carriedResources
                     /\ tree' = tree
                ELSE /\ tree'[target].woodAmount = tree[target].woodAmount - yield
                     /\ worker'[w].carriedResources.wood =
                            worker[w].carriedResources.wood + yield
                     /\ worker'[w].harvestTimer = 0
      ]_vars
\* A worker harvested with 3.5 s on its timer, got less than it asked for, and its
\* timer is back at 0.
C20_Witness ==
    \E w \in WorkerIds :
        /\ treeCall.by = w
        /\ treeCall.amount = ((Scale \div 2 + 3 * Scale) * HARVEST_RATE) \div Scale
        /\ treeCall.ret < treeCall.amount
        /\ treeCall.ret > 0
        /\ worker[w].harvestTimer = 0
        /\ worker[w].carriedResources.wood >= treeCall.ret

RECURSIVE SumOver(_, _, _)
SumOver(ids, i, amount) ==
    IF i = 0 THEN 0 ELSE amount[ids[i]] + SumOver(ids, i - 1, amount)

\* C22: a worker is DELIVERING at the end of a frame only if it entered that state
\* in the frame; the frame has then emptied its hands, and the inventory has grown
\* by exactly what the workers that entered DELIVERING carried; a worker that was
\* DELIVERING before a frame carries nothing and has left DELIVERING after it; and
\* only a frame makes a worker DELIVERING.
C22_DeliveredOncePerTrip ==
    [][ LET entered(w) == /\ w \in DOMAIN worker
                          /\ worker[w].state # "DELIVERING"
                          /\ worker'[w].state = "DELIVERING"
            brought == [w \in DOMAIN worker' |->
                           [k \in CarriedKinds |->
                               IF entered(w) THEN worker[w].carriedResources[k] ELSE 0]]
        IN IF frame'.n = frame.n + 1
           THEN /\ \A w \in DOMAIN worker :
                     worker[w].state = "DELIVERING" =>
                        /\ worker[w].carriedResources = [k \in CarriedKinds |-> 0]
                        /\ worker'[w].carriedResources = [k \in CarriedKinds |-> 0]
                        /\ worker'[w].state # "DELIVERING"
                /\ \A w \in DOMAIN worker' :
                     worker'[w].state = "DELIVERING" =>
                        /\ entered(w)
                        /\ worker'[w].carriedResources = [k \in CarriedKinds |-> 0]
                /\ \A k \in CarriedKinds :
                     resources'[k] = resources[k]
                        + SumOver(workers', Len(workers'),
                                  [w \in DOMAIN worker' |-> brought[w][k]])
           ELSE /\ resources' = resources
                /\ \A w \in DOMAIN worker :
                     /\ worker'[w].state = "DELIVERING" => worker[w].state = "DELIVERING"
                     /\ worker'[w].carriedResources = worker[w].carriedResources
      ]_vars

\* A frame has just collected from a worker that came back with a load: the worker
\* is DELIVERING with empty hands, and the wood it had is in the inventory.
C22_Witness ==
    \E w \in DOMAIN worker :
        /\ worker[w].state = "DELIVERING"
        /\ frame.collected = <<w>>
        /\ worker[w].carriedResources.wood = 0
        /\ resources.wood > InitialResources.wood
                              + (MaxWoodAmount("t1") - WoodLeft("t1"))
                              + (MaxWoodAmount("t2") - WoodLeft("t2"))

\* C23: the finder never returns a depleted tree; it returns null exactly when the
\* list holds no tree with wood within MAX_SEARCH_DISTANCE of the search position;
\* otherwise it returns a tree with wood at the least distance, and of several
\* equally near ones the first in list order.
C23_FinderNearestFirst ==
    finderCall.called =>
        LET list == finderCall.list
            dist(i) == Abs(finderCall.searchPos - TreePos(list[i]))
            candidates == {i \in 1 .. Len(list) :
                              /\ finderCall.wood[list[i]] > 0
                              /\ dist(i) <= MAX_SEARCH_DISTANCE * Scale}
        IN /\ (finderCall.ret = NULL) <=> (candidates = {})
           /\ finderCall.ret # NULL =>
                 \E i \in candidates :
                     /\ list[i] = finderCall.ret
                     /\ \A j \in candidates :
                            /\ dist(i) <= dist(j)
                            /\ dist(j) = dist(i) => i <= j

\* The finder was asked from halfway between two trees with wood, t2 first in the
\* list, and returned t2.
C23_Witness ==
    /\ finderCall.called
    /\ finderCall.list = <<"t2", "t1">>
    /\ finderCall.wood["t1"] > 0
    /\ finderCall.wood["t2"] > 0
    /\ Abs(finderCall.searchPos - TreePos("t1")) = Abs(finderCall.searchPos - TreePos("t2"))
    /\ finderCall.ret = "t2"

\* Tree a is marked as being harvested although no worker is HARVESTING it.
FlagLeft(a) ==
    /\ tree[a].isBeingHarvested
    /\ \A w \in WorkerIds :
          ~(worker[w].state = "HARVESTING" /\ worker[w].targetResource = a)

\* C24 (as claimed), for the one worker of the harness, where no other worker
\* touches the flag: a harvest command given to a worker that is HARVESTING tree a
\* leaves a's isBeingHarvested flag true with nobody harvesting a, and while the
\* flag of a tree is left like this no step makes it false.
C24_LeftFlagStaysTrue ==
    [][ /\ \A w \in WorkerIds, a \in TreeIds :
             (/\ worker[w].state = "HARVESTING"
              /\ worker[w].targetResource = a
              /\ tree[a].isBeingHarvested
              /\ \E t \in TreeIds : HarvestResource(w, t)) => FlagLeft(a)'
        /\ \A a \in TreeIds : FlagLeft(a) => tree'[a].isBeingHarvested
      ]_vars

\* C24 (amended): a harvest command given to a worker that is HARVESTING tree a
\* leaves a's isBeingHarvested flag true with nobody harvesting a; and the flag of a
\* tree goes from true to false only in an update or a stopTask of a worker whose
\* target is that tree (which the re-tasked worker itself becomes when it is sent
\* back to a).
C24_FlagClearedOnlyByTargetingWorker ==
    [][ /\ \A w \in WorkerIds, a \in TreeIds :
             (/\ worker[w].state = "HARVESTING"
              /\ worker[w].targetResource = a
              /\ tree[a].isBeingHarvested
              /\ \E t \in TreeIds : HarvestResource(w, t)) => FlagLeft(a)'
        /\ \A a \in TreeIds :
             (tree[a].isBeingHarvested /\ ~tree'[a].isBeingHarvested) =>
                \E w \in WorkerIds :
                    /\ worker[w].targetResource = a
                    /\ \/ StopTask(w)
                       \/ \E deltaTime \in DeltaTimes : Update(w, deltaTime)
      ]_vars

\* The worker was re-tasked from t1 to t2 while harvesting t1 and now harvests t2:
\* t1 is still marked as being harvested, and nobody harvests it.
C24_Witness ==
    \E w \in WorkerIds :
        /\ worker[w].state = "HARVESTING"
        /\ worker[w].targetResource = "t2"
        /\ tree["t2"].isBeingHarvested
        /\ FlagLeft("t1")

\* The trees in the list l.
InList(l) == {l[i] : i \in 1 .. Len(l)}

\* C25: between frames every tree of Game._trees has wood left, so a tree that a
\* frame has emptied is out of the list when the frame ends; a tree that is out of
\* the list never comes back into it; and a harvest command on a tree is only
\* accepted for a tree of the list.
C25_NoDepletedTreeInWorld ==
    /\ [](\A t \in InList(trees) : tree[t].woodAmount > 0)
    /\ [][ /\ InList(trees') \subseteq InList(trees)
           /\ \A t \in TreeIds :
                (tree[t].woodAmount > 0 /\ tree'[t].woodAmount = 0) =>
                    /\ frame'.n = frame.n + 1
                    /\ t \notin InList(trees')
           /\ \A w \in DOMAIN worker, t \in TreeIds :
                RightClickTree(w, t) => t \in InList(trees)
         ]_vars

\* A frame has emptied t1 and removed it from the scene; t2 is still there.
C25_Witness ==
    /\ frame.n > 0
    /\ tree["t1"].woodAmount = 0
    /\ trees = <<"t2">>
    /\ treeCall.tree = "t1"

\* C26: an update of a unit that is moving to a target leaves it no farther from the
\* target than it was; when the target is within MoveSpeed * deltaTime the unit is
\* put on the target and stops; otherwise it advances by MoveSpeed * deltaTime, stays
\* on the same side of the target and keeps moving.
C26_MoveNeverOvershoots ==
    [][ \A w \in WorkerIds, deltaTime \in UnitDeltaTimes :
          (/\ UnitAdvance(w, deltaTime)
           /\ worker[w].isMoving
           /\ worker[w].targetPosition # NoPosition) =>
             LET target == worker[w].targetPosition[1]
                 before == Abs(worker[w].position - target)
                 after == Abs(worker'[w].position - target)
             IN /\ after <= before
                /\ IF before <= MoveSpeed * deltaTime
                   THEN /\ worker'[w].position = target
                        /\ ~worker'[w].isMoving
                   ELSE /\ after = before - MoveSpeed * deltaTime
                        /\ Sign(target - worker'[w].position)
                              = Sign(target - worker[w].position)
                        /\ worker'[w].isMoving
                        /\ worker'[w].targetPosition = worker[w].targetPosition
      ]_vars

\* The unit has stopped on a target that lay nearer than a whole step.
C26_Witness ==
    \E w \in WorkerIds :
        /\ worker[w].position = BasePos + 3
        /\ ~worker[w].isMoving
        /\ worker[w].targetPosition = NoPosition

\* C27: in every state of a worker, targetResource and assignedResource are the same
\* tree or are both null.
C27_TargetIsAssigned ==
    \A w \in WorkerIds : worker[w].targetResource = worker[w].assignedResource

\* The worker emptied t1 without filling up, found t2 through the finder and is on
\* its way there: t2 is both its target and its assigned resource.
C27_Witness ==
    \E w \in WorkerIds :
        /\ worker[w].state = "MOVING_TO_RESOURCE"
        /\ worker[w].targetResource = "t2"
        /\ worker[w].assignedResource = "t2"
        /\ worker[w].carriedResources.wood = WoodLeft("t1")
        /\ tree["t1"].woodAmount = 0
        /\ treeCall.by = w
        /\ treeCall.tree = "t1"

\* The wood taken from the trees so far, removed trees included.
WoodTaken ==
    SumOver(AllTrees, Len(AllTrees),
            [t \in TreeIds |-> MaxWoodAmount(t) - tree[t].woodAmount])

\* The wood in the hands of the workers.
WoodCarried ==
    SumOver(workers, Len(workers),
            [w \in DOMAIN worker |-> worker[w].carriedResources.wood])

\* The wood the deliveries have added to the inventory.
WoodDelivered == resources.wood - InitialResources.wood

\* C28: in every state of the game, the wood taken from the trees is the wood the
\* workers carry plus the wood their deliveries have added to the inventory.
C28_WoodConserved == WoodTaken = WoodCarried + WoodDelivered

\* Two workers are in the game; one of them has delivered a load in this game and
\* the other has wood in its hands.
C28_Witness ==
    /\ Len(workers) = 2
    /\ WoodDelivered > (MaxWoodAmount("t1") - WoodLeft("t1"))
                         + (MaxWoodAmount("t2") - WoodLeft("t2"))
    /\ WoodCarried > 0
    /\ \A t \in TreeIds : tree[t].woodAmount = 0

\* C29: a worker in HARVESTING is not moving and is within HARVEST_RANGE of its
\* target resource, also after a right-click on the ground.
C29_HarvestingWorkerAtItsTree ==
    \A w \in DOMAIN worker :
        worker[w].state = "HARVESTING" =>
            /\ ~worker[w].isMoving
            /\ worker[w].targetResource # NULL
            /\ Abs(worker[w].position - TreePos(worker[w].targetResource))
                  <= HARVEST_RANGE * Scale

\* C30: in the endless game, a worker that is MOVING_TO_RESOURCE, HARVESTING or
\* RETURNING_TO_BASE is eventually IDLE, or DELIVERING with what it carried handed
\* over to the inventory.
C30_WorkerNeverStuck ==
    \A w \in WorkerIds :
        (worker[w].state \in {"MOVING_TO_RESOURCE", "HARVESTING", "RETURNING_TO_BASE"})
            ~> (\/ worker[w].state = "IDLE"
                \/ /\ worker[w].state = "DELIVERING"
                   /\ worker[w].carriedResources.wood = 0)

====
